---- MODULE Spec2Model ----
(***************************************************************************)
(* A model of the logging facade of github.com/edony-ink/log (log.go):     *)
(* the template formatter, the raw formatter, the SWLog instance with its  *)
(* console sink and file sink, and the process-wide SWLogger.              *)
(*                                                                         *)
(* Strings are sequences of one-character strings, so that the             *)
(* substitutions of Formatter.Format are computed as strings.Replace       *)
(* computes them.                                                          *)
(***************************************************************************)
EXTENDS Integers, Sequences, FiniteSets, TLC

VARIABLES
    logger,   \* the SWLog instances: the process-wide SWLogger and a separately constructed one
    nextId,   \* the identity the next allocated logrus.Logger gets
    status,   \* "running", or "exited" once the process has called os.Exit
    last,     \* the call made last: operation, instance, arguments, how it ended
    wrote,    \* the entries that call had each sink write (see EntryWrite)
    fmtIn,    \* inputs of a direct call of Formatter.Format
    fmtOut,   \* what that call returned
    thread,   \* the goroutines inside SWLog.Log: position, arguments, locals
    mu,       \* the holder of each sink's mutex (logrus.Logger.mu), 0 when free
    main      \* the main goroutine inside SWLog.Init: position and arguments

vars == <<logger, nextId, status, last, wrote, fmtIn, fmtOut, thread, mu, main>>

-----------------------------------------------------------------------------
(* Severity levels: logrus.Level, re-exported by log.go.                   *)

PanicLevel == 0
FatalLevel == 1
ErrorLevel == 2
WarnLevel == 3
InfoLevel == 4
DebugLevel == 5

\* the levels log.go re-exports, the thresholds and severities of SWLog
Levels == PanicLevel..DebugLevel

\* logrus.TraceLevel: not re-exported, but a level an entry handed to
\* Formatter.Format can have
TraceLevel == 6

\* logrus.Level.String(), as Formatter.Format calls it
LevelString(level) ==
    CASE level = PanicLevel -> <<"p", "a", "n", "i", "c">>
      [] level = FatalLevel -> <<"f", "a", "t", "a", "l">>
      [] level = ErrorLevel -> <<"e", "r", "r", "o", "r">>
      [] level = WarnLevel  -> <<"w", "a", "r", "n", "i", "n", "g">>
      [] level = InfoLevel  -> <<"i", "n", "f", "o">>
      [] level = DebugLevel -> <<"d", "e", "b", "u", "g">>
      [] level = TraceLevel -> <<"t", "r", "a", "c", "e">>
      [] OTHER              -> <<"u", "n", "k", "n", "o", "w", "n">>

-----------------------------------------------------------------------------
(* The string functions Formatter.Format uses.                             *)

\* old occurs in s at position i
HasAt(s, old, i) ==
    /\ i + Len(old) - 1 <= Len(s)
    /\ \A k \in 1..Len(old) : s[i + k - 1] = old[k]

\* strings.Index, 1-based; 0 when old does not occur
Index(s, old) ==
    LET hits == {i \in 1..(Len(s) - Len(old) + 1) : HasAt(s, old, i)}
    IN  IF hits = {} THEN 0
        ELSE CHOOSE i \in hits : \A j \in hits : i <= j

\* strings.Replace(s, old, new, 1): the first occurrence only
Replace(s, old, new) ==
    LET i == Index(s, old)
    IN  IF i = 0
        THEN s
        ELSE SubSeq(s, 1, i - 1) \o new \o SubSeq(s, i + Len(old), Len(s))

\* strings.Split(s, sep) for a non-empty sep
RECURSIVE Split(_, _)
Split(s, sep) ==
    LET i == Index(s, sep)
    IN  IF i = 0
        THEN <<s>>
        ELSE <<SubSeq(s, 1, i - 1)>> \o Split(SubSeq(s, i + Len(sep), Len(s)), sep)

LowerCase == <<"a", "b", "c", "d", "e", "f", "g", "h", "i", "j", "k", "l", "m", "n", "o", "p", "q", "r", "s", "t", "u", "v", "w", "x", "y", "z">>
UpperCase == <<"A", "B", "C", "D", "E", "F", "G", "H", "I", "J", "K", "L", "M", "N", "O", "P", "Q", "R", "S", "T", "U", "V", "W", "X", "Y", "Z">>

UpperChar(c) ==
    IF \E i \in 1..Len(LowerCase) : LowerCase[i] = c
    THEN UpperCase[CHOOSE i \in 1..Len(LowerCase) : LowerCase[i] = c]
    ELSE c

\* strings.ToUpper
ToUpper(s) == [i \in 1..Len(s) |-> UpperChar(s[i])]

\* the padding loop of Formatter.Format: n spaces
RECURSIVE Spaces(_)
Spaces(n) == IF n <= 0 THEN <<>> ELSE <<" ">> \o Spaces(n - 1)

-----------------------------------------------------------------------------
(* time.Time.Format for the layouts Formatter.Format can meet.             *)

DigitChars == <<"0", "1", "2", "3", "4", "5", "6", "7", "8", "9">>

Digit(d) == DigitChars[d + 1]

Pad2(n) == <<Digit((n \div 10) % 10), Digit(n % 10)>>
Pad3(n) == <<Digit((n \div 100) % 10)>> \o Pad2(n)
Pad4(n) == <<Digit((n \div 1000) % 10)>> \o Pad3(n)

\* the layout element "_2": a day padded with a space
SpacePad2(n) == IF n < 10 THEN <<" ", Digit(n)>> ELSE Pad2(n)

MonthName(m) ==
    <<<<"J", "a", "n">>, <<"F", "e", "b">>, <<"M", "a", "r">>, <<"A", "p", "r">>, <<"M", "a", "y">>, <<"J", "u", "n">>,
      <<"J", "u", "l">>, <<"A", "u", "g">>, <<"S", "e", "p">>, <<"O", "c", "t">>, <<"N", "o", "v">>, <<"D", "e", "c">>>>[m]

Hour12(h) == IF h % 12 = 0 THEN 12 ELSE h % 12

\* the layout element "3": an hour of the 12-hour clock, not padded
Unpadded(n) == IF n < 10 THEN <<Digit(n)>> ELSE Pad2(n)

\* t.Format(layout): a layout is named by its constant in package time
TimeFormat(t, layout) ==
    CASE layout = "RFC3339" ->
            Pad4(t.year) \o <<"-">> \o Pad2(t.month) \o <<"-">> \o Pad2(t.day) \o <<"T">>
                \o Pad2(t.hour) \o <<":">> \o Pad2(t.min) \o <<":">> \o Pad2(t.sec) \o t.zone
      [] layout = "StampMilli" ->
            MonthName(t.month) \o <<" ">> \o SpacePad2(t.day) \o <<" ">>
                \o Pad2(t.hour) \o <<":">> \o Pad2(t.min) \o <<":">> \o Pad2(t.sec)
                \o <<".">> \o Pad3(t.msec)
      [] layout = "Kitchen" ->
            Unpadded(Hour12(t.hour)) \o <<":">> \o Pad2(t.min)
                \o (IF t.hour < 12 THEN <<"A", "M">> ELSE <<"P", "M">>)

-----------------------------------------------------------------------------
(* The formatters.                                                         *)

defaultLogFormat == <<"%", "t", "i", "m", "e", "%", "|", "%", "l", "v", "l", "%", "|", "%", "f", "u", "n", "c", "%", "(", "%", "l", "i", "n", "e", "%", ")", "|", "%", "m", "s", "g", "%", "\n">>
defaultTimestampFormat == "StampMilli"

\* &Formatter{}: no template, no timestamp format, no caller metadata
NewFormatter ==
    [kind |-> "Formatter", LogFormat |-> <<>>, TimestampFormat |-> "",
     FileName |-> <<>>, FuncName |-> <<>>]

\* &STDFormatter{}
NewSTDFormatter ==
    [kind |-> "STDFormatter", LogFormat |-> <<>>, TimestampFormat |-> "",
     FileName |-> <<>>, FuncName |-> <<>>]

\* the loop over entry.Data: a field whose value is a string replaces %key% once
RECURSIVE ReplaceFields(_, _)
ReplaceFields(output, data) ==
    IF data = <<>>
    THEN output
    ELSE LET d == Head(data)
         IN  ReplaceFields(
                IF d.isString
                THEN Replace(output, <<"%">> \o d.key \o <<"%">>, d.value)
                ELSE output,
                Tail(data))

\* Formatter.Format with the level token padded to six characters
FormatterFormatShortPad(f, entry) ==
    LET tmpl == IF f.LogFormat = <<>> THEN defaultLogFormat ELSE f.LogFormat
        tsf == IF f.TimestampFormat = "" THEN defaultTimestampFormat
               ELSE f.TimestampFormat
        currentDate == Split(TimeFormat(entry.Time, "RFC3339"), <<"T">>)
        currentTime == Split(TimeFormat(entry.Time, tsf), <<" ">>)
        o1 == Replace(tmpl, <<"%", "t", "i", "m", "e", "%">>,
                      currentDate[1] \o <<" ">> \o currentTime[Len(currentTime)])
        o2 == Replace(o1, <<"%", "m", "s", "g", "%">>, entry.Message)
        upper == ToUpper(LevelString(entry.Level))
        level == IF Len(upper) < 6 THEN upper \o Spaces(6 - Len(upper)) ELSE upper
        o3 == Replace(o2, <<"%", "l", "v", "l", "%">>, level)
        o4 == Replace(o3, <<"%", "l", "i", "n", "e", "%">>, f.FileName)
        o5 == Replace(o4, <<"%", "f", "u", "n", "c", "%">>, f.FuncName)
    IN  IF Len(currentDate) # 2
        THEN [err |-> "split date format error", bytes |-> <<>>]
        ELSE IF Len(currentTime) < 1
        THEN [err |-> "split time format error", bytes |-> <<>>]
        ELSE [err |-> "", bytes |-> ReplaceFields(o5, entry.Data)]

\* Formatter.Format: the bytes of one record, or an error
FormatterFormat(f, entry) ==
    LET tmpl == IF f.LogFormat = <<>> THEN defaultLogFormat ELSE f.LogFormat
        tsf == IF f.TimestampFormat = "" THEN defaultTimestampFormat
               ELSE f.TimestampFormat
        currentDate == Split(TimeFormat(entry.Time, "RFC3339"), <<"T">>)
        currentTime == Split(TimeFormat(entry.Time, tsf), <<" ">>)
        o1 == Replace(tmpl, <<"%", "t", "i", "m", "e", "%">>,
                      currentDate[1] \o <<" ">> \o currentTime[Len(currentTime)])
        o2 == Replace(o1, <<"%", "m", "s", "g", "%">>, entry.Message)
        upper == ToUpper(LevelString(entry.Level))
        level == IF Len(upper) < 7 THEN upper \o Spaces(7 - Len(upper)) ELSE upper
        o3 == Replace(o2, <<"%", "l", "v", "l", "%">>, level)
        o4 == Replace(o3, <<"%", "l", "i", "n", "e", "%">>, f.FileName)
        o5 == Replace(o4, <<"%", "f", "u", "n", "c", "%">>, f.FuncName)
    IN  IF Len(currentDate) # 2
        THEN [err |-> "split date format error", bytes |-> <<>>]
        ELSE IF Len(currentTime) < 1
        THEN [err |-> "split time format error", bytes |-> <<>>]
        ELSE [err |-> "", bytes |-> ReplaceFields(o5, entry.Data)]

\* STDFormatter.Format: the message and a newline
STDFormatterFormat(f, entry) ==
    [err |-> "", bytes |-> Replace(<<"%", "m", "s", "g", "%", "\n">>, <<"%", "m", "s", "g", "%">>, entry.Message)]

\* the Format method of whichever formatter a sink holds
Format(f, entry) ==
    IF f.kind = "STDFormatter" THEN STDFormatterFormat(f, entry)
    ELSE FormatterFormat(f, entry)

-----------------------------------------------------------------------------
(* The inputs the model draws from.                                        *)

Instances == {"SWLogger", "other"}

\* log file arguments of Init; "" is the empty path
Paths == {"", "/tmp/a.log", "/tmp/b.log"}

\* what runtime.Caller and the wrappers' trimming yield for a call site;
\* the empty pair is the case ok = false
CallSites ==
    { [file |-> <<"a", "/", "b", ".", "g", "o", ":", "7">>, func |-> <<"f", "o", "o">>],
      [file |-> <<>>, func |-> <<>>] }

\* messages: the one string argument of a log call
Messages == { <<"x">>, <<"%", "l", "v", "l", "%", " ", "y">> }

\* format strings of the f-variants, each with one %s verb, and their argument
Formats == { <<"%", "s", "!">> }
FormatArgs == { <<"x">> }

\* the clock: what time.Now() returns when logrus builds an entry
Clock ==
    { [year |-> 2021, month |-> 3, day |-> 9, hour |-> 10, min |-> 16,
       sec |-> 18, msec |-> 0, zone |-> <<"Z">>] }

\* what the file system answers to Init
InitEnv == {"ok", "mkdir fails", "rotatelogs fails"}

\* fmt.Sprintf(format, arg) for a format with one %s verb and a string arg
Sprintf(format, arg) == Replace(format, <<"%", "s">>, arg)

\* the message Init logs when the instance is already set up
AlreadySetupMsg == <<"n", "o", " ", "n", "e", "e", "d", " ", "t", "o", " ", "s", "e", "t", "u", "p", ",", " ", "s", "w", "l", "o", "g", "g", "e", "r", " ", "i", "s", " ", "a", "l", "r", "e", "a", "d", "y", " ", "s", "e", "t", "u", "p", "!">>

\* the most logrus.Logger values the process allocates
MaxLoggers == 4

-----------------------------------------------------------------------------
(* logrus.Logger: a sink.  id = 0 is the nil pointer.                      *)

NilLogger == [id |-> 0, Level |-> 0, Formatter |-> NewFormatter]

\* &logrus.Logger{Level: level, Formatter: &Formatter{}}
NewLogger(id, level) == [id |-> id, Level |-> level, Formatter |-> NewFormatter]

\* logrus.Logger.IsLevelEnabled
SinkLevelEnabled(sink, level) == sink.Level >= level

\* logrus.Entry.write: the formatter of the sink serialises the entry and the
\* bytes go to the sink's writer in one Write; on a formatting error nothing
\* goes to the writer
EntryWrite(w) ==
    LET r == Format(w.Formatter, w.entry)
    IN  IF r.err = "" THEN <<r.bytes>> ELSE <<>>

\* a sink method that writes but never panics
LoggerLogNoPanic(sink, level, msg, now) ==
    IF SinkLevelEnabled(sink, level)
    THEN [wrote |-> << [Formatter |-> sink.Formatter,
                        entry |-> [Time |-> now, Level |-> level,
                                   Message |-> msg, Data |-> <<>>]] >>,
          panics |-> FALSE]
    ELSE [wrote |-> <<>>, panics |-> FALSE]

\* logrus.Logger.Log(level, msg) as the sink methods Panic, Error, Warn, Info
\* and Debug call it: an enabled entry is written (EntryWrite, with the
\* formatter as the sink holds it now), and an entry of panic level then
\* panics with the entry as payload
LoggerLog(sink, level, msg, now) ==
    IF SinkLevelEnabled(sink, level)
    THEN [wrote |-> << [Formatter |-> sink.Formatter,
                        entry |-> [Time |-> now, Level |-> level,
                                   Message |-> msg, Data |-> <<>>]] >>,
          panics |-> level <= PanicLevel]
    ELSE [wrote |-> <<>>, panics |-> FALSE]

-----------------------------------------------------------------------------
(* SWLog.                                                                  *)

\* &SWLog{isSetup: false, raw: false}
ZeroSWLog ==
    [STDLogger |-> NilLogger, FileLogger |-> NilLogger, IsLog2STD |-> FALSE,
     LogFile |-> "", LogLevel |-> 0, skip |-> 0, isSetup |-> FALSE,
     raw |-> FALSE]

\* what a call reports: how it ended and what it handed to the two writers
Done(lg, outcome, via, std, file) ==
    [lg |-> lg, outcome |-> outcome, via |-> via, std |-> std, file |-> file]

\* isLevelEnabled with the comparison turned round
isLevelEnabledFlipped(lg, level) == lg.LogLevel <= level

\* SWLog.isLevelEnabled
isLevelEnabled(lg, level) == lg.LogLevel >= level

\* the type assertions of formatterDecorator fail
DecoratorPanics(lg) ==
    \/ lg.raw /\ lg.STDLogger.Formatter.kind # "STDFormatter"
    \/ ~lg.raw /\ lg.STDLogger.Formatter.kind # "Formatter"

\* SWLog.formatterDecorator: the caller metadata goes into both formatters
formatterDecorator(lg, filename, funcname) ==
    [lg EXCEPT !.STDLogger.Formatter.FileName = filename,
               !.STDLogger.Formatter.FuncName = funcname,
               !.FileLogger.Formatter.FileName = filename,
               !.FileLogger.Formatter.FuncName = funcname]

\* the switch of SWLog.Log: the sink method a level selects
SinkMethodLevel(level) ==
    IF level \in {PanicLevel, FatalLevel, ErrorLevel, WarnLevel, InfoLevel}
    THEN level
    ELSE DebugLevel

\* one case of the switch of SWLog.Log, entered with echo as IsLog2STD: the
\* console sink first when echo is on, then the file sink.  The sink methods
\* Panic and Fatal do not return: Panic panics once the entry is written,
\* Fatal calls Exit(1) whether or not the sink wrote the entry.
Route(lg, echo, level, msg, now) ==
    LET m == SinkMethodLevel(level)
        s == LoggerLog(lg.STDLogger, m, msg, now)
        f == LoggerLog(lg.FileLogger, m, msg, now)
    IN  IF echo /\ s.panics
        THEN Done(lg, "panic", "STDLogger", s.wrote, <<>>)
        ELSE IF echo /\ m = FatalLevel
        THEN Done(lg, "exit", "STDLogger", s.wrote, <<>>)
        ELSE Done(lg,
                  IF f.panics THEN "panic"
                  ELSE IF m = FatalLevel THEN "exit" ELSE "return",
                  "FileLogger",
                  IF echo THEN s.wrote ELSE <<>>,
                  f.wrote)

\* SWLog.Log from the decoration on, with the console echo taken as on
DispatchAlwaysEcho(lg, level, filename, funcname, msg, now) ==
    IF DecoratorPanics(lg)
    THEN Done(lg, "panic", "formatterDecorator", <<>>, <<>>)
    ELSE LET d == formatterDecorator(lg, filename, funcname)
         IN  IF isLevelEnabled(d, level)
             THEN Route(d, TRUE, level, msg, now)
             ELSE Done(d, "return", "disabled", <<>>, <<>>)

\* SWLog.Log from the decoration on
Dispatch(lg, level, filename, funcname, msg, now) ==
    IF DecoratorPanics(lg)
    THEN Done(lg, "panic", "formatterDecorator", <<>>, <<>>)
    ELSE LET d == formatterDecorator(lg, filename, funcname)
         IN  IF isLevelEnabled(d, level)
             THEN Route(d, d.IsLog2STD, level, msg, now)
             ELSE Done(d, "return", "disabled", <<>>, <<>>)

\* SWLog.Log without the check of isSetup
LogWithoutSetupCheck(lg, level, filename, funcname, msg, now) ==
    IF lg.STDLogger.id = 0
    THEN Done(lg, "panic", "nil pointer", <<>>, <<>>)
    ELSE Dispatch(lg, level, filename, funcname, msg, now)

\* SWLog.Log: logrus.Fatal ends the process when the instance is not set up
Log(lg, level, filename, funcname, msg, now) ==
    IF ~lg.isSetup
    THEN Done(lg, "exit", "logrus.Fatal", <<>>, <<>>)
    ELSE Dispatch(lg, level, filename, funcname, msg, now)

-----------------------------------------------------------------------------
(* SWLog.Init.                                                             *)

\* what Init reports: the instance, the allocation counter, and as for Done
InitDone(lg, id, outcome, via, std, file) ==
    [lg |-> lg, nextId |-> id, outcome |-> outcome, via |-> via,
     std |-> std, file |-> file]

\* SWLog.Init from "init log level" on: the body behind the isSetup guard.
\* global is the LogLevel of the process-wide SWLogger as the construction
\* of the console sink reads it (the new level when lg is SWLogger itself).
Setup(lg, isGlobal, globalLevel, id, logFile, level, log2STD, env) ==
    LET l1 == [lg EXCEPT !.LogLevel = level,
                         !.LogFile = IF logFile # "" THEN logFile ELSE @]
        l2 == [l1 EXCEPT !.FileLogger = NewLogger(id, l1.LogLevel)]
        l3 == [l2 EXCEPT !.skip = 2,
                         !.IsLog2STD = log2STD,
                         !.STDLogger =
                             NewLogger(id + 1,
                                       IF isGlobal THEN l2.LogLevel
                                       ELSE globalLevel),
                         !.isSetup = TRUE]
    IN  IF l1.LogFile = ""
        THEN InitDone(l1, id, "exit", "logrus.Fatalf: log file not set", <<>>, <<>>)
        ELSE IF env = "mkdir fails"
        THEN InitDone(l1, id, "exit", "logrus.Fatalf: mkdir", <<>>, <<>>)
        ELSE IF env = "rotatelogs fails"
        THEN InitDone(l2, id + 1, "exit", "logrus.Fatalf: rotatelogs", <<>>, <<>>)
        ELSE InitDone(l3, id + 2, "return", "setup", <<>>, <<>>)

\* SWLog.Init without the isSetup guard: every call sets the instance up again
InitWithoutGuard(lg, isGlobal, globalLevel, id, logFile, level, log2STD, env, site, now) ==
    Setup(lg, isGlobal, globalLevel, id, logFile, level, log2STD, env)

\* SWLog.Init that returns at once, without a log call, when the instance is
\* set up
InitSilentWhenSetup(lg, isGlobal, globalLevel, id, logFile, level, log2STD, env, site, now) ==
    IF lg.isSetup
    THEN InitDone(lg, id, "return", "already setup", <<>>, <<>>)
    ELSE Setup(lg, isGlobal, globalLevel, id, logFile, level, log2STD, env)

\* SWLog.Init: on an instance that is set up it only logs, at debug level and
\* with the call site of Init's caller, that there is nothing to do
SWLogInit(lg, isGlobal, globalLevel, id, logFile, level, log2STD, env, site, now) ==
    IF lg.isSetup
    THEN LET r == Log(lg, DebugLevel, site.file, site.func, AlreadySetupMsg, now)
         IN  InitDone(r.lg, id, r.outcome,
                      IF r.outcome = "return" THEN "already setup" ELSE r.via,
                      r.std, r.file)
    ELSE Setup(lg, isGlobal, globalLevel, id, logFile, level, log2STD, env)

-----------------------------------------------------------------------------
(* SetRawSTDLogging, SetLogLevel, GetLogLevel.                             *)

\* SWLog.SetRawSTDLogging: the flag first, then a fresh formatter of the
\* chosen kind for the console sink; SetFormatter on a nil sink panics
SetRawSTDLogging(lg, isRaw) ==
    LET l1 == [lg EXCEPT !.raw = isRaw]
    IN  IF l1.STDLogger.id = 0
        THEN Done(l1, "panic", "nil pointer", <<>>, <<>>)
        ELSE Done([l1 EXCEPT !.STDLogger.Formatter =
                                 IF isRaw THEN NewSTDFormatter ELSE NewFormatter],
                  "return", "", <<>>, <<>>)

\* SetLogLevel that leaves the file sink alone when echo is off
SetLogLevelEchoOnly(lg, level) ==
    IF lg.IsLog2STD
    THEN Done([lg EXCEPT !.STDLogger.Level = level, !.FileLogger.Level = level,
                         !.LogLevel = level],
              "return", "", <<>>, <<>>)
    ELSE IF lg.FileLogger.id = 0
    THEN Done(lg, "panic", "nil pointer", <<>>, <<>>)
    ELSE Done([lg EXCEPT !.LogLevel = level], "return", "", <<>>, <<>>)

\* SetLogLevel, on the process-wide instance lg: the console sink when echo
\* is on, the file sink, the recorded threshold; SetLevel on a nil sink panics
SetLogLevel(lg, level) ==
    LET l1 == IF lg.IsLog2STD THEN [lg EXCEPT !.STDLogger.Level = level] ELSE lg
    IN  IF lg.IsLog2STD /\ lg.STDLogger.id = 0
        THEN Done(lg, "panic", "nil pointer", <<>>, <<>>)
        ELSE IF l1.FileLogger.id = 0
        THEN Done(l1, "panic", "nil pointer", <<>>, <<>>)
        ELSE Done([l1 EXCEPT !.FileLogger.Level = level, !.LogLevel = level],
                  "return", "", <<>>, <<>>)

\* GetLogLevel, on the process-wide instance lg: the level of the file sink
GetLogLevel(lg) == lg.FileLogger.Level

-----------------------------------------------------------------------------
(* The state machine: a program calling the package.                       *)

NoCall ==
    [op |-> "none", inst |-> "SWLogger", level |-> 0, msg |-> <<>>,
     outcome |-> "return", via |-> "", ret |-> 0]

\* level is the level argument of the call, ret what GetLogLevel returned
Call(op, l, level, msg, outcome, via, ret) ==
    [op |-> op, inst |-> l, level |-> level, msg |-> msg,
     outcome |-> outcome, via |-> via, ret |-> ret]

NoFmt == [called |-> FALSE]

\* the goroutines that log
Threads == {1, 2}

\* a goroutine outside SWLog.Log: pc is its position, raw the value of the raw
\* flag formatterDecorator read, at the store of formatterDecorator it is
\* about to make, sink the sink it is logging to, level, filename, funcname
\* and msg the arguments of its call, line the FileName Formatter.Format has
\* read, STDLogger and FileLogger what the call had each sink write
IdleThread ==
    [pc |-> "idle", raw |-> FALSE, at |-> 0, sink |-> "", level |-> 0,
     filename |-> <<>>, funcname |-> <<>>, msg |-> <<>>, line |-> <<>>,
     STDLogger |-> <<>>, FileLogger |-> <<>>]

\* no goroutine is inside a log call; both sink mutexes are free
NoThreads == [t \in Threads |-> IdleThread]
NoMutex == [STDLogger |-> 0, FileLogger |-> 0]

\* the main goroutine outside SWLog.Init
IdleMain ==
    [pc |-> "idle", logFile |-> "", level |-> 0, log2STD |-> FALSE, env |-> "ok"]

Init ==
    /\ logger = [l \in Instances |-> ZeroSWLog]
    /\ nextId = 1
    /\ status = "running"
    /\ last = NoCall
    /\ wrote = [std |-> <<>>, file |-> <<>>]
    /\ fmtIn = NoFmt
    /\ fmtOut = NoFmt
    /\ thread = NoThreads
    /\ mu = NoMutex
    /\ main = IdleMain

\* the state after a call that reported r
Finish(l, r, call) ==
    /\ logger' = [logger EXCEPT ![l] = r.lg]
    /\ status' = IF r.outcome = "exit" THEN "exited" ELSE status
    /\ wrote' = [std |-> r.std, file |-> r.file]
    /\ last' = call
    /\ UNCHANGED <<fmtIn, fmtOut, thread, mu, main>>

\* logger.Init(logFile, level, log2STD)
DoInit(l) ==
    \E logFile \in Paths, level \in Levels, log2STD \in BOOLEAN,
       env \in (IF logger[l].isSetup THEN {"ok"} ELSE InitEnv),
       site \in (IF logger[l].isSetup THEN CallSites
                 ELSE {[file |-> <<>>, func |-> <<>>]}),
       now \in Clock :
        LET r == SWLogInit(logger[l], l = "SWLogger", logger["SWLogger"].LogLevel,
                           nextId, logFile, level, log2STD, env, site, now)
        IN  /\ status = "running"
            /\ r.nextId <= MaxLoggers + 1
            /\ nextId' = r.nextId
            /\ Finish(l, r, Call("Init", l, level, <<>>, r.outcome, r.via, 0))

\* logger.SetRawSTDLogging(isRaw)
DoSetRawSTDLogging(l) ==
    \E isRaw \in BOOLEAN :
        LET r == SetRawSTDLogging(logger[l], isRaw)
        IN  /\ status = "running"
            /\ Finish(l, r, Call("SetRawSTDLogging", l, 0, <<>>, r.outcome, r.via, 0))
            /\ UNCHANGED nextId

\* SetLogLevel(level)
DoSetLogLevel ==
    \E level \in Levels :
        LET r == SetLogLevel(logger["SWLogger"], level)
        IN  /\ status = "running"
            /\ Finish("SWLogger", r, Call("SetLogLevel", "SWLogger", level, <<>>,
                                          r.outcome, r.via, 0))
            /\ UNCHANGED nextId

\* GetLogLevel(): reading the level of a nil file sink panics
DoGetLogLevel ==
    LET lg == logger["SWLogger"]
        r == IF lg.FileLogger.id = 0
             THEN Done(lg, "panic", "nil pointer", <<>>, <<>>)
             ELSE Done(lg, "return", "", <<>>, <<>>)
    IN  /\ status = "running"
        /\ Finish("SWLogger", r, Call("GetLogLevel", "SWLogger", 0, <<>>, r.outcome, r.via,
                                      IF r.outcome = "return" THEN GetLogLevel(lg)
                                      ELSE 0))
        /\ UNCHANGED nextId

\* a log call op on instance l that reaches SWLog.Log with this level, call
\* site and message
LogCall(op, l, level, site, msg) ==
    \E now \in Clock :
        LET r == Log(logger[l], level, site.file, site.func, msg, now)
        IN  /\ status = "running"
            /\ Finish(l, r, Call(op, l, level, msg, r.outcome, r.via, 0))
            /\ UNCHANGED nextId

\* logger.Log(level, filename, funcname, msg)
DoLog(l) ==
    \E level \in Levels, site \in CallSites, msg \in Messages :
        LogCall("Log", l, level, site, msg)

\* logger.Logf(level, format, filename, funcname, arg)
DoLogf(l) ==
    \E level \in Levels, site \in CallSites, format \in Formats, arg \in FormatArgs :
        LogCall("Logf", l, level, site, Sprintf(format, arg))

\* a wrapper: the call site is resolved by runtime.Caller(skip), then Log
Wrapper(op, l, level) ==
    \E site \in CallSites, msg \in Messages : LogCall(op, l, level, site, msg)

\* an f-variant: the call site is resolved, then Logf
Wrapperf(op, l, level) ==
    \E site \in CallSites, format \in Formats, arg \in FormatArgs :
        LogCall(op, l, level, site, Sprintf(format, arg))

Debug(l) == Wrapper("Debug", l, DebugLevel)
Info(l) == Wrapper("Info", l, InfoLevel)
Warn(l) == Wrapper("Warn", l, WarnLevel)
Error(l) == Wrapper("Error", l, ErrorLevel)
Fatal(l) == Wrapper("Fatal", l, FatalLevel)
Panic(l) == Wrapper("Panic", l, PanicLevel)
Debugf(l) == Wrapperf("Debugf", l, DebugLevel)
Infof(l) == Wrapperf("Infof", l, InfoLevel)
Warnf(l) == Wrapperf("Warnf", l, WarnLevel)
Errorf(l) == Wrapperf("Errorf", l, ErrorLevel)
Fatalf(l) == Wrapperf("Fatalf", l, FatalLevel)
Panicf(l) == Wrapperf("Panicf", l, PanicLevel)

\* the instances the program logs through
Used == {"SWLogger"}

Next ==
    \/ \E l \in Used : DoInit(l)
    \/ \E l \in Used : DoSetRawSTDLogging(l)
    \/ DoSetLogLevel
    \/ DoGetLogLevel
    \/ \E l \in Used : DoLog(l)
    \/ \E l \in Used : DoLogf(l)
    \/ \E l \in Used : Debug(l)
    \/ \E l \in Used : Info(l)
    \/ \E l \in Used : Warn(l)
    \/ \E l \in Used : Error(l)
    \/ \E l \in Used : Fatal(l)
    \/ \E l \in Used : Panic(l)
    \/ \E l \in Used : Debugf(l)
    \/ \E l \in Used : Infof(l)
    \/ \E l \in Used : Warnf(l)
    \/ \E l \in Used : Errorf(l)
    \/ \E l \in Used : Fatalf(l)
    \/ \E l \in Used : Panicf(l)

Spec == Init /\ [][Next]_vars

-----------------------------------------------------------------------------
(* Vocabulary of the properties.                                           *)

LogOps ==
    {"Log", "Logf", "Debug", "Info", "Warn", "Error", "Fatal", "Panic",
     "Debugf", "Infof", "Warnf", "Errorf", "Fatalf", "Panicf"}

\* the instance the last call was made on
Target == logger[last.inst]

\* the last call was a log call on an instance that is set up
LoggedOnSetup == last.op \in LogOps /\ Target.isSetup

\* the raw flag and the kind of the console formatter agree, as they do on
\* every instance on which SetRawSTDLogging was not called before Init
Coherent(lg) == ~DecoratorPanics(lg)

\* the byte strings the last call handed to the console writer and to the
\* file writer
ConsoleBytes == IF wrote.std = <<>> THEN <<>> ELSE EntryWrite(wrote.std[1])
FileBytes == IF wrote.file = <<>> THEN <<>> ELSE EntryWrite(wrote.file[1])

\* the severities from the highest priority to the lowest
SeverityOrder ==
    <<PanicLevel, FatalLevel, ErrorLevel, WarnLevel, InfoLevel, DebugLevel>>

Rank(level) == CHOOSE i \in 1..Len(SeverityOrder) : SeverityOrder[i] = level

\* the priority of level m is at or above that of the threshold t
AtOrAbove(m, t) == Rank(m) <= Rank(t)

-----------------------------------------------------------------------------
(* Properties.                                                             *)

\* C1: an Init call on an instance that is already set up leaves LogFile,
\* LogLevel, IsLog2STD and the identity of both sinks as the first call
\* established them, whatever its arguments.
C1_IdempotentInit ==
    [][\A l \in Instances :
         (logger[l].isSetup /\ last'.op = "Init" /\ last'.inst = l)
         => /\ logger'[l].LogFile = logger[l].LogFile
            /\ logger'[l].LogLevel = logger[l].LogLevel
            /\ logger'[l].IsLog2STD = logger[l].IsLog2STD
            /\ logger'[l].STDLogger.id = logger[l].STDLogger.id
            /\ logger'[l].FileLogger.id = logger[l].FileLogger.id
            /\ nextId' = nextId]_vars

\* a second Init has returned, called with a threshold other than the
\* configured one
C1_Witness ==
    /\ last.op = "Init"
    /\ last.via = "already setup"
    /\ last.level # Target.LogLevel
    /\ Target.LogFile = "/tmp/a.log"

\* C2: on an instance that is set up, for every threshold and both echo
\* settings, Fatal and Fatalf end the process and do not return.
C2_FatalTerminates ==
    (last.op \in {"Fatal", "Fatalf"} /\ Target.isSetup /\ Coherent(Target))
    => (last.outcome = "exit" /\ status = "exited")

\* C3: on an instance that is set up, for every threshold and both echo
\* settings, Panic and Panicf raise a panic; control does not continue
\* past the call, and the process keeps running in the recover handler.
C3_PanicUnwinds ==
    (last.op \in {"Panic", "Panicf"} /\ Target.isSetup)
    => (last.outcome = "panic" /\ status = "running")

\* a Panic call on a coherent instance has panicked, for a threshold of
\* panic level and echo off
C3_Witness ==
    /\ last.op = "Panic"
    /\ Target.isSetup /\ Coherent(Target)
    /\ Target.LogLevel = PanicLevel /\ ~Target.IsLog2STD
    /\ last.outcome = "panic"

\* C4: isLevelEnabled(m) holds exactly when the priority of m is at or above
\* that of the recorded threshold (panic highest, debug lowest): a threshold
\* of info rejects debug and accepts warn; and a log call whose level is not
\* enabled hands nothing to either sink.
C4_LevelGating ==
    /\ \A l \in Instances, m \in Levels :
          isLevelEnabled(logger[l], m) <=> AtOrAbove(m, logger[l].LogLevel)
    /\ \A l \in Instances :
          logger[l].LogLevel = InfoLevel
          => ~isLevelEnabled(logger[l], DebugLevel)
             /\ isLevelEnabled(logger[l], WarnLevel)
    /\ (LoggedOnSetup /\ ~AtOrAbove(last.level, Target.LogLevel))
          => (wrote.std = <<>> /\ wrote.file = <<>>)

\* a debug call has returned from an instance whose threshold is info
C4_Witness ==
    /\ LoggedOnSetup /\ Coherent(Target)
    /\ Target.LogLevel = InfoLevel
    /\ last.level = DebugLevel
    /\ last.outcome = "return"

\* C5: on an instance set up with echo off, no call hands anything to the
\* console sink, and every log call whose level is enabled hands its message
\* to the file sink, which writes it.
C5_EchoGating ==
    (Target.isSetup /\ ~Target.IsLog2STD /\ Coherent(Target))
    => /\ wrote.std = <<>>
       /\ (last.op \in LogOps /\ isLevelEnabled(Target, last.level))
            => /\ Len(wrote.file) = 1
               /\ wrote.file[1].entry.Message = last.msg
               /\ wrote.file[1].entry.Level = last.level
               /\ Len(FileBytes) = 1

\* an enabled warn call went to the file sink of an instance with echo off
\* after SetLogLevel had changed the threshold
C5_Witness ==
    /\ LoggedOnSetup /\ ~Target.IsLog2STD
    /\ last.level = WarnLevel
    /\ Target.LogLevel = WarnLevel
    /\ Target.STDLogger.Level # Target.LogLevel
    /\ Len(wrote.file) = 1

\* C6: a log call on an instance that is not set up ends the process and
\* changes nothing of the instance, its sinks or their formatters, and hands
\* nothing to either sink.
C6_PreInitFatal ==
    [][(last'.op \in LogOps /\ ~logger[last'.inst].isSetup)
       => /\ last'.outcome = "exit"
          /\ status' = "exited"
          /\ logger' = logger
          /\ wrote'.std = <<>> /\ wrote'.file = <<>>]_vars

\* a log call was made before Init and the process has exited
C6_Witness ==
    /\ last.op \in {"Info", "Infof"}
    /\ ~Target.isSetup
    /\ status = "exited"

\* the process-wide instance
SWLogger == logger["SWLogger"]

\* C7: once the process-wide instance is set up, GetLogLevel returns the
\* argument of the latest SetLogLevel call, or the threshold of Init when there
\* was none, and that is the level of the file sink and the recorded
\* threshold, whatever the echo flag.
C7_LevelRoundTrip ==
    /\ [](SWLogger.isSetup
          => /\ GetLogLevel(SWLogger) = SWLogger.LogLevel
             /\ (last.op = "SetLogLevel" => GetLogLevel(SWLogger) = last.level)
             /\ (last.op = "GetLogLevel"
                   => last.outcome = "return" /\ last.ret = SWLogger.LogLevel))
    /\ [][/\ (~SWLogger.isSetup /\ SWLogger'.isSetup)
               => GetLogLevel(SWLogger') = last'.level
          /\ (SWLogger.isSetup /\ last'.op # "SetLogLevel")
               => GetLogLevel(SWLogger') = GetLogLevel(SWLogger)]_vars

\* GetLogLevel has returned a level set by SetLogLevel, other than that of
\* the console sink, on an instance with echo off
C7_Witness ==
    /\ last.op = "GetLogLevel"
    /\ SWLogger.isSetup /\ ~SWLogger.IsLog2STD
    /\ last.ret = InfoLevel
    /\ SWLogger.STDLogger.Level = DebugLevel

\* the record the full template renders for the last call
TemplateLine(entry, f) ==
    FormatterFormat([NewFormatter EXCEPT !.FileName = f.FileName,
                                         !.FuncName = f.FuncName], entry).bytes

\* C8: on an instance set up with echo on and put in raw mode, every enabled
\* log call with message m hands exactly m and a newline to the console
\* writer, whatever its level and call site, and the file sink renders the
\* same call with the full template; SetRawSTDLogging(false) gives the
\* console sink the template formatter back.
C8_RawMode ==
    /\ (LoggedOnSetup /\ Target.IsLog2STD /\ Target.raw /\ Coherent(Target)
            /\ isLevelEnabled(Target, last.level))
       => /\ ConsoleBytes = <<last.msg \o <<"\n">> >>
          /\ Len(wrote.file) = 1
          /\ FileBytes =
               <<TemplateLine(wrote.file[1].entry, Target.FileLogger.Formatter)>>
    /\ (last.op = "SetRawSTDLogging" /\ Target.isSetup /\ ~Target.raw)
       => Target.STDLogger.Formatter = NewFormatter

\* C10: an enabled call of panic or fatal level on an instance that is set up
\* hands its message to the file sink, and with echo on to the console sink
\* too, before it panics or ends the process.
C10_LogBeforeTransfer ==
    (LoggedOnSetup /\ Coherent(Target)
        /\ last.level \in {PanicLevel, FatalLevel}
        /\ isLevelEnabled(Target, last.level))
    => /\ last.outcome \in {"panic", "exit"}
       /\ Len(FileBytes) = 1
       /\ (Target.IsLog2STD => Len(ConsoleBytes) = 1)

-----------------------------------------------------------------------------
(* Formatter.Format called directly, on formatters and entries of every    *)
(* shape: with and without a template of its own, a timestamp format, and   *)
(* named fields.                                                            *)

FmtTemplates == { <<>>, <<"%", "l", "v", "l", "%", ":", " ", "%", "m", "s", "g", "%", " ", "[", "%", "u", "s", "e", "r", "%", "]", "\n">> }

FmtTimestampFormats == { "", "StampMilli", "Kitchen" }

FmtSites ==
    { [file |-> <<"e", "x", "a", "m", "p", "l", "e", "s", "/", "e", "x", "a", "m", "p", "l", "e", "_", "l", "o", "g", "_", "t", "e", "s", "t", ".", "g", "o", ":", "2", "3">>, func |-> <<"E", "x", "a", "m", "p", "l", "e", "S", "W", "L", "o", "g", "_", "D", "e", "b", "u", "g">>],
      [file |-> <<"%", "f", "u", "n", "c", "%">>, func |-> <<"%", "l", "i", "n", "e", "%">>],
      [file |-> <<>>, func |-> <<>>] }

FmtTimes ==
    { [year |-> 2021, month |-> 3, day |-> 9, hour |-> 10, min |-> 16,
       sec |-> 18, msec |-> 0, zone |-> <<"Z">>],
      [year |-> 2024, month |-> 12, day |-> 25, hour |-> 23, min |-> 5,
       sec |-> 9, msec |-> 123, zone |-> <<"+", "0", "8", ":", "0", "0">>] }

FmtMessages ==
    { <<"t", "e", "s", "t", " ", "d", "e", "b", "u", "g">>, <<"%", "l", "v", "l", "%", " ", "%", "f", "u", "n", "c", "%", " ", "%", "l", "i", "n", "e", "%", " ", "%", "t", "i", "m", "e", "%", " ", "%", "m", "s", "g", "%">>, <<"1", "0", "0", "%">>, <<>> }

FmtData ==
    { <<>>,
      << [key |-> <<"u", "s", "e", "r">>, isString |-> TRUE, value |-> <<"b", "o", "b">>] >>,
      << [key |-> <<"u", "s", "e", "r">>, isString |-> FALSE, value |-> <<>>] >> }

\* the levels of the entries: every level logrus has
FmtLevels == Levels \cup {TraceLevel}

InitFmt ==
    /\ logger = [l \in Instances |-> ZeroSWLog]
    /\ nextId = 1
    /\ status = "running"
    /\ last = NoCall
    /\ wrote = [std |-> <<>>, file |-> <<>>]
    /\ fmtIn \in
         { [called |-> TRUE,
            f |-> [NewFormatter EXCEPT !.LogFormat = tmpl, !.TimestampFormat = tsf,
                                       !.FileName = site.file,
                                       !.FuncName = site.func],
            entry |-> [Time |-> t, Level |-> level, Message |-> msg, Data |-> data]] :
           tmpl \in FmtTemplates, tsf \in FmtTimestampFormats, site \in FmtSites,
           t \in FmtTimes, level \in FmtLevels, msg \in FmtMessages, data \in FmtData }
    /\ fmtOut = NoFmt
    /\ thread = NoThreads
    /\ mu = NoMutex
    /\ main = IdleMain

\* f.Format(entry)
CallFormat ==
    /\ fmtIn.called
    /\ ~fmtOut.called
    /\ LET r == FormatterFormat(fmtIn.f, fmtIn.entry)
       IN  fmtOut' = [called |-> TRUE, err |-> r.err, bytes |-> r.bytes]
    /\ UNCHANGED <<logger, nextId, status, last, wrote, fmtIn, thread, mu, main>>

NextFmt == CallFormat

SpecFmt == InitFmt /\ [][NextFmt]_vars

\* the level token of a rendered line: the upper-case name, seven wide
LevelToken(level) ==
    CASE level = PanicLevel -> <<"P", "A", "N", "I", "C", " ", " ">>
      [] level = FatalLevel -> <<"F", "A", "T", "A", "L", " ", " ">>
      [] level = ErrorLevel -> <<"E", "R", "R", "O", "R", " ", " ">>
      [] level = WarnLevel  -> <<"W", "A", "R", "N", "I", "N", "G">>
      [] level = InfoLevel  -> <<"I", "N", "F", "O", " ", " ", " ">>
      [] level = DebugLevel -> <<"D", "E", "B", "U", "G", " ", " ">>
      [] level = TraceLevel -> <<"T", "R", "A", "C", "E", " ", " ">>

\* the date and the time of day of a rendered line
DateToken(t) == Pad4(t.year) \o <<"-">> \o Pad2(t.month) \o <<"-">> \o Pad2(t.day)

ClockToken(t, tsf) ==
    IF tsf = "Kitchen"
    THEN TimeFormat(t, "Kitchen")
    ELSE Pad2(t.hour) \o <<":">> \o Pad2(t.min) \o <<":">> \o Pad2(t.sec)
            \o <<".">> \o Pad3(t.msec)

\* C9: with no template of its own and no named fields, Formatter.Format
\* returns no error and exactly "<date> <time>|<L>|f(s)|m\n": <L> the
\* upper-case level name padded with spaces to seven characters, f, s and m
\* verbatim even where they contain placeholder text; and the record of the
\* package example renders as the example shows it.
C9_DefaultTemplate ==
    (fmtOut.called /\ fmtIn.f.LogFormat = <<>> /\ fmtIn.entry.Data = <<>>)
    => /\ fmtOut.err = ""
       /\ fmtOut.bytes =
            DateToken(fmtIn.entry.Time) \o <<" ">>
                \o ClockToken(fmtIn.entry.Time, fmtIn.f.TimestampFormat) \o <<"|">>
                \o LevelToken(fmtIn.entry.Level) \o <<"|">>
                \o fmtIn.f.FuncName \o <<"(">> \o fmtIn.f.FileName \o <<")", "|">>
                \o fmtIn.entry.Message \o <<"\n">>
       /\ Len(LevelToken(fmtIn.entry.Level)) = 7
       /\ (/\ fmtIn.entry.Time.year = 2021
           /\ fmtIn.f.TimestampFormat = ""
           /\ fmtIn.entry.Level = DebugLevel
           /\ fmtIn.entry.Message = <<"t", "e", "s", "t", " ", "d", "e", "b", "u", "g">>
           /\ fmtIn.f.FuncName = <<"E", "x", "a", "m", "p", "l", "e", "S", "W", "L", "o", "g", "_", "D", "e", "b", "u", "g">>)
          => fmtOut.bytes =
                <<"2", "0", "2", "1", "-", "0", "3", "-", "0", "9", " ", "1", "0", ":", "1", "6", ":", "1", "8", ".", "0", "0", "0", "|", "D", "E", "B", "U", "G", " ", " ", "|", "E", "x", "a", "m", "p", "l", "e", "S", "W", "L", "o", "g", "_", "D", "e", "b", "u", "g", "(", "e", "x", "a", "m", "p", "l", "e", "s", "/", "e", "x", "a", "m", "p", "l", "e", "_", "l", "o", "g", "_", "t", "e", "s", "t", ".", "g", "o", ":", "2", "3", ")", "|", "t", "e", "s", "t", " ", "d", "e", "b", "u", "g", "\n">>

\* Format has rendered, with the default template, a message and a call site
\* that contain placeholder text
C9_Witness ==
    /\ fmtOut.called
    /\ fmtIn.f.LogFormat = <<>> /\ fmtIn.entry.Data = <<>>
    /\ fmtIn.entry.Message = <<"%", "l", "v", "l", "%", " ", "%", "f", "u", "n", "c", "%", " ", "%", "l", "i", "n", "e", "%", " ", "%", "t", "i", "m", "e", "%", " ", "%", "m", "s", "g", "%">>
    /\ fmtIn.f.FileName = <<"%", "f", "u", "n", "c", "%">>
    /\ fmtIn.entry.Level = InfoLevel
    /\ fmtOut.err = ""

-----------------------------------------------------------------------------
(* Two goroutines logging through the process-wide instance.  SWLog.Log is *)
(* taken apart into the steps at which it touches what the goroutines      *)
(* share: the four stores of formatterDecorator, the threshold check, and, *)
(* per sink, the two reads Formatter.Format makes of the caller metadata,  *)
(* which logrus.Entry.write makes while holding the sink's mutex.          *)

\* the call site the wrappers resolve for the call of each goroutine
RaceSites ==
    << [file |-> <<"a", "/", "b", ".", "g", "o", ":", "7">>, func |-> <<"f", "o", "o">>],
       [file |-> <<"c", "/", "d", ".", "g", "o", ":", "9">>, func |-> <<"b", "a", "r">>] >>

RaceMessages == { <<"x">> }

\* the other goroutine
Other(t) == 3 - t

\* the stores of formatterDecorator, in program order
DecoratorStores ==
    << [sink |-> "STDLogger", field |-> "FileName"],
       [sink |-> "STDLogger", field |-> "FuncName"],
       [sink |-> "FileLogger", field |-> "FileName"],
       [sink |-> "FileLogger", field |-> "FuncName"] >>

\* the i-th store of formatterDecorator
DecoratorStore(lg, i, filename, funcname) ==
    LET st == DecoratorStores[i]
    IN  [lg EXCEPT ![st.sink].Formatter[st.field] =
                       IF st.field = "FileName" THEN filename ELSE funcname]

\* a decorator that stores only while no goroutine holds the sink's mutex
DecoratorBlockedByMutex(s) == mu[s] # 0

\* formatterDecorator stores into the formatter of sink s without taking the
\* mutex of s or any other lock: nothing holds it back
DecoratorBlocked(s) == FALSE

\* the main goroutine calls Init(logFile, level, log2STD), once, on the
\* instance as the package declares it: the check of isSetup
RaceInitCall ==
    /\ status = "running"
    /\ main.pc = "idle"
    /\ ~logger["SWLogger"].isSetup
    /\ \E logFile \in Paths, level \in Levels, log2STD \in BOOLEAN, env \in InitEnv :
         main' = [pc |-> "LogLevel", logFile |-> logFile, level |-> level,
                  log2STD |-> log2STD, env |-> env]
    /\ UNCHANGED <<logger, nextId, status, last, wrote, fmtIn, fmtOut, thread, mu>>

\* the positions of Init at which it stores into the instance
InitStores ==
    {"LogLevel", "LogFile", "FileLogger", "SetOutput", "skip", "IsLog2STD",
     "STDLogger", "isSetup"}

\* one store of Init, by a main goroutine m on the process-wide instance lg,
\* with what Init does up to its next store: the instance, the next position
\* and the allocation counter
InitStore(lg, m, id) ==
    CASE m.pc = "LogLevel" ->
            [lg |-> [lg EXCEPT !.LogLevel = m.level], pc |-> "LogFile", nextId |-> id]
      [] m.pc = "LogFile" ->
            LET l1 == [lg EXCEPT !.LogFile = IF m.logFile # "" THEN m.logFile ELSE @]
            IN  [lg |-> l1,
                 pc |-> IF l1.LogFile = "" \/ m.env = "mkdir fails"
                        THEN "logrus.Fatalf" ELSE "FileLogger",
                 nextId |-> id]
      [] m.pc = "FileLogger" ->
            [lg |-> [lg EXCEPT !.FileLogger = NewLogger(id, lg.LogLevel)],
             pc |-> IF m.env = "rotatelogs fails" THEN "logrus.Fatalf"
                    ELSE "SetOutput",
             nextId |-> id + 1]
      [] m.pc = "SetOutput" ->
            [lg |-> lg, pc |-> "skip", nextId |-> id]
      [] m.pc = "skip" ->
            [lg |-> [lg EXCEPT !.skip = 2], pc |-> "IsLog2STD", nextId |-> id]
      [] m.pc = "IsLog2STD" ->
            [lg |-> [lg EXCEPT !.IsLog2STD = m.log2STD], pc |-> "STDLogger",
             nextId |-> id]
      [] m.pc = "STDLogger" ->
            [lg |-> [lg EXCEPT !.STDLogger = NewLogger(id, lg.LogLevel)],
             pc |-> "isSetup", nextId |-> id + 1]
      [] m.pc = "isSetup" ->
            [lg |-> [lg EXCEPT !.isSetup = TRUE], pc |-> "done", nextId |-> id]

\* the main goroutine makes the next store of Init; SetOutput takes the
\* mutex of the file sink
RaceInitStore ==
    LET r == InitStore(logger["SWLogger"], main, nextId)
    IN  /\ status = "running"
        /\ main.pc \in InitStores
        /\ main.pc = "SetOutput" => mu.FileLogger = 0
        /\ r.nextId <= MaxLoggers + 1
        /\ logger' = [logger EXCEPT !["SWLogger"] = r.lg]
        /\ nextId' = r.nextId
        /\ main' = [main EXCEPT !.pc = r.pc]
        /\ UNCHANGED <<status, last, wrote, fmtIn, fmtOut, thread, mu>>

\* logrus.Fatalf in Init: the line goes to the standard logger of logrus,
\* then Exit(1)
RaceInitFatalf ==
    /\ status = "running"
    /\ main.pc = "logrus.Fatalf"
    /\ main' = [main EXCEPT !.pc = "os.Exit"]
    /\ UNCHANGED <<logger, nextId, status, last, wrote, fmtIn, fmtOut, thread, mu>>

\* Exit(1) of the main goroutine ends the process
RaceInitExit ==
    /\ status = "running"
    /\ main.pc = "os.Exit"
    /\ main' = [main EXCEPT !.pc = "exited"]
    /\ status' = "exited"
    /\ UNCHANGED <<logger, nextId, last, wrote, fmtIn, fmtOut, thread, mu>>

\* goroutine t calls a wrapper, which resolves the call site and enters
\* SWLog.Log: the check of isSetup
RaceEnter(t) ==
    /\ status = "running"
    /\ thread[t].pc = "idle"
    /\ \E level \in Levels, msg \in RaceMessages :
         thread' = [thread EXCEPT ![t] =
                       [IdleThread EXCEPT
                           !.pc = IF logger["SWLogger"].isSetup
                                  THEN "formatterDecorator"
                                  ELSE "logrus.Fatal",
                           !.level = level,
                           !.filename = RaceSites[t].file,
                           !.funcname = RaceSites[t].func,
                           !.msg = msg]]
    /\ UNCHANGED <<logger, nextId, status, last, wrote, fmtIn, fmtOut, mu, main>>

\* logrus.Fatal in Log, on an instance that is not set up: the line goes to
\* the standard logger of logrus, then Exit(1)
RaceFatal(t) ==
    /\ status = "running"
    /\ thread[t].pc = "logrus.Fatal"
    /\ thread' = [thread EXCEPT ![t].pc = "os.Exit"]
    /\ UNCHANGED <<logger, nextId, status, last, wrote, fmtIn, fmtOut, mu, main>>

\* Exit(1) of goroutine t, in logrus.Fatal or in the Fatal method of a sink,
\* ends the process
RaceExit(t) ==
    /\ status = "running"
    /\ thread[t].pc = "os.Exit"
    /\ thread' = [thread EXCEPT ![t].pc = "exited"]
    /\ status' = "exited"
    /\ UNCHANGED <<logger, nextId, last, wrote, fmtIn, fmtOut, mu, main>>

\* goroutine t enters formatterDecorator and reads the raw flag, once: it
\* picks the branch whose two stores go to the console formatter
RaceReadRaw(t) ==
    /\ status = "running"
    /\ thread[t].pc = "formatterDecorator"
    /\ thread' = [thread EXCEPT ![t].pc = "decorate",
                                ![t].raw = logger["SWLogger"].raw,
                                ![t].at = 1]
    /\ UNCHANGED <<logger, nextId, status, last, wrote, fmtIn, fmtOut, mu, main>>

\* the type assertion before the i-th store holds: the console formatter is
\* of the type of the branch taken when raw was read, the file formatter a
\* *Formatter
DecoratorAsserts(lg, i, raw) ==
    IF DecoratorStores[i].sink = "STDLogger"
    THEN lg.STDLogger.Formatter.kind = (IF raw THEN "STDFormatter" ELSE "Formatter")
    ELSE lg.FileLogger.Formatter.kind = "Formatter"

\* goroutine t makes the next store of formatterDecorator, or panics in the
\* type assertion before it
RaceDecorate(t) ==
    LET th == thread[t]
        lg == logger["SWLogger"]
    IN  /\ status = "running"
        /\ th.pc = "decorate"
        /\ ~DecoratorBlocked(DecoratorStores[th.at].sink)
        /\ IF ~DecoratorAsserts(lg, th.at, th.raw)
           THEN /\ thread' = [thread EXCEPT ![t].pc = "panicked"]
                /\ UNCHANGED logger
           ELSE /\ logger' = [logger EXCEPT !["SWLogger"] =
                                 DecoratorStore(lg, th.at, th.filename, th.funcname)]
                /\ thread' = [thread EXCEPT
                                 ![t].pc = IF th.at < Len(DecoratorStores)
                                           THEN "decorate" ELSE "isLevelEnabled",
                                 ![t].at = th.at + 1]
        /\ UNCHANGED <<nextId, status, last, wrote, fmtIn, fmtOut, mu, main>>

\* goroutine t checks the threshold and picks the first sink of the switch
RaceGate(t) ==
    LET th == thread[t]
        lg == logger["SWLogger"]
    IN  /\ status = "running"
        /\ th.pc = "isLevelEnabled"
        /\ thread' = [thread EXCEPT
                         ![t].pc = IF isLevelEnabled(lg, th.level) THEN "Log"
                                   ELSE "done",
                         ![t].sink = IF ~isLevelEnabled(lg, th.level) THEN ""
                                     ELSE IF lg.IsLog2STD THEN "STDLogger"
                                     ELSE "FileLogger"]
        /\ UNCHANGED <<logger, nextId, status, last, wrote, fmtIn, fmtOut, mu, main>>

\* where a sink method leaves goroutine t once Entry.write has returned:
\* Panic panics when it has written, Fatal goes on to Exit(1), the others go
\* on to the file sink or return
AfterSink(th, m, written) ==
    IF m = PanicLevel /\ written THEN [th EXCEPT !.pc = "panicked"]
    ELSE IF m = FatalLevel THEN [th EXCEPT !.pc = "os.Exit"]
    ELSE IF th.sink = "STDLogger" THEN [th EXCEPT !.pc = "Log", !.sink = "FileLogger"]
    ELSE [th EXCEPT !.pc = "done"]

\* goroutine t calls the method of its sink: the sink's own level check,
\* then Entry.write takes the sink's mutex and Formatter.Format runs up to
\* its read of FileName
RaceSinkLog(t) ==
    LET th == thread[t]
        lg == logger["SWLogger"]
        m == SinkMethodLevel(th.level)
    IN  /\ status = "running"
        /\ th.pc = "Log"
        /\ IF SinkLevelEnabled(lg[th.sink], m)
           THEN /\ mu[th.sink] = 0
                /\ mu' = [mu EXCEPT ![th.sink] = t]
                /\ thread' = [thread EXCEPT
                                 ![t].pc = "Format",
                                 ![t].line = lg[th.sink].Formatter.FileName]
           ELSE /\ thread' = [thread EXCEPT ![t] = AfterSink(th, m, FALSE)]
                /\ UNCHANGED mu
        /\ UNCHANGED <<logger, nextId, status, last, wrote, fmtIn, fmtOut, main>>

\* Formatter.Format reads FuncName and returns; the record goes to the
\* writer and Entry.write releases the mutex
RaceSinkFormat(t) ==
    LET th == thread[t]
        lg == logger["SWLogger"]
        m == SinkMethodLevel(th.level)
    IN  /\ status = "running"
        /\ th.pc = "Format"
        /\ mu[th.sink] = t
        /\ \E now \in Clock :
             thread' = [thread EXCEPT ![t] =
                [AfterSink(th, m, TRUE) EXCEPT
                    ![th.sink] =
                        << [Formatter |->
                               [lg[th.sink].Formatter EXCEPT !.FileName = th.line],
                            entry |-> [Time |-> now, Level |-> m,
                                       Message |-> th.msg, Data |-> <<>>]] >>]]
        /\ mu' = [mu EXCEPT ![th.sink] = 0]
        /\ UNCHANGED <<logger, nextId, status, last, wrote, fmtIn, fmtOut, main>>

RaceStep(t) ==
    \/ RaceEnter(t)
    \/ RaceFatal(t)
    \/ RaceExit(t)
    \/ RaceReadRaw(t)
    \/ RaceDecorate(t)
    \/ RaceGate(t)
    \/ RaceSinkLog(t)
    \/ RaceSinkFormat(t)

NextRace ==
    \/ RaceInitCall
    \/ RaceInitStore
    \/ RaceInitFatalf
    \/ RaceInitExit
    \/ \E t \in Threads : RaceStep(t)

SpecRace == Init /\ [][NextRace]_vars

\* goroutine u has made the store i of formatterDecorator in its call
HasStored(u, i) == thread[u].at > i

\* the values the caller metadata of a record of goroutine t on sink s can
\* have: those of its own call, and those of the other call once that call
\* has stored them
Labels(t, s) ==
    {RaceSites[t].file}
        \cup {RaceSites[u].file : u \in {v \in Threads : v # t /\ HasStored(v, IF s = "STDLogger" THEN 1 ELSE 3)}}
FuncNames(t, s) ==
    {RaceSites[t].func}
        \cup {RaceSites[u].func : u \in {v \in Threads : v # t /\ HasStored(v, IF s = "STDLogger" THEN 2 ELSE 4)}}

\* C11: two goroutines log through the same set-up instance from different
\* call sites.  No lock of the instance orders the decoration of one call
\* against the rendering of the other: a goroutine about to store caller
\* metadata is never held back, also while the other holds a sink's mutex
\* inside Format; and a record carries the message and level of its own call
\* with the site label and function name the formatter held when Format read
\* them, its own or those the other call has stored.
C11_AttributionRace ==
    /\ \A t \in Threads :
         (status = "running" /\ thread[t].pc = "decorate")
         => ENABLED RaceDecorate(t)
    /\ \A t \in Threads, s \in {"STDLogger", "FileLogger"} :
         thread[t][s] # <<>>
         => /\ thread[t][s][1].entry.Message = thread[t].msg
            /\ thread[t][s][1].entry.Level = thread[t].level
            /\ thread[t][s][1].Formatter.FileName \in Labels(t, s)
            /\ thread[t][s][1].Formatter.FuncName \in FuncNames(t, s)

\* a goroutine's record in the file carries the site label and the function
\* name of the other goroutine's call, which decorated after it and has not
\* rendered yet
C11_Witness ==
    \E t \in Threads :
        /\ thread[t].FileLogger # <<>>
        /\ thread[t].FileLogger[1].Formatter.FileName = RaceSites[Other(t)].file
        /\ thread[t].FileLogger[1].Formatter.FuncName = RaceSites[Other(t)].func
        /\ RaceSites[Other(t)] # RaceSites[t]
        /\ thread[Other(t)].FileLogger = <<>>
        /\ EntryWrite(thread[t].FileLogger[1])
             = <<TemplateLine(thread[t].FileLogger[1].entry,
                              [FileName |-> RaceSites[Other(t)].file,
                               FuncName |-> RaceSites[Other(t)].func])>>

-----------------------------------------------------------------------------
(* A program that sets up and logs through both the process-wide instance  *)
(* and an instance it constructed itself (&SWLog{}).                       *)

\* the first Init of instance l
FirstInit(l) == ~logger[l].isSetup /\ DoInit(l)

NextInstances ==
    \/ \E l \in Instances : FirstInit(l)
    \/ DoSetLogLevel

SpecInstances == Init /\ [][NextInstances]_vars

\* C12: right after the first Init(path, threshold, echo) on an instance,
\* the process-wide one or one constructed separately, the level of the
\* console sink, the level of the file sink and the recorded threshold of
\* that instance all equal threshold.
C12_SinksShareThreshold ==
    (last.op = "Init" /\ last.via = "setup")
    => /\ Target.isSetup
       /\ Target.LogLevel = last.level
       /\ Target.FileLogger.Level = last.level
       /\ Target.STDLogger.Level = last.level

-----------------------------------------------------------------------------
(* Init on an instance that is set up.                                     *)

\* the caller metadata a sink's formatter holds
Metadata(sink) == <<sink.Formatter.FileName, sink.Formatter.FuncName>>

\* instance lg with the caller metadata of both formatters taken from old
WithMetadataOf(lg, old) ==
    [lg EXCEPT !.STDLogger.Formatter.FileName = old.STDLogger.Formatter.FileName,
               !.STDLogger.Formatter.FuncName = old.STDLogger.Formatter.FuncName,
               !.FileLogger.Formatter.FileName = old.FileLogger.Formatter.FileName,
               !.FileLogger.Formatter.FuncName = old.FileLogger.Formatter.FuncName]

\* w is the one record of the debug call of Init, as a sink whose formatter
\* holds the metadata md writes it
IsAlreadySetupRecord(w, md) ==
    /\ Len(w) = 1
    /\ w[1].entry.Message = AlreadySetupMsg
    /\ w[1].entry.Level = DebugLevel
    /\ w[1].entry.Data = <<>>
    /\ Metadata(w[1]) = md

\* C13 as claimed: an Init call on an instance that is set up, for every
\* threshold and echo setting, hands no record to the console sink or the
\* file sink and leaves the site label and the function name in both sinks'
\* formatters unchanged.
C13_ReInitNoOp ==
    [][\A l \in Instances :
         (logger[l].isSetup /\ last'.op = "Init" /\ last'.inst = l)
         => /\ wrote'.std = <<>>
            /\ wrote'.file = <<>>
            /\ Metadata(logger'[l].STDLogger) = Metadata(logger[l].STDLogger)
            /\ Metadata(logger'[l].FileLogger) = Metadata(logger[l].FileLogger)]_vars

\* C13 amended: an Init call on an instance that is set up (its raw flag
\* agreeing with its console formatter) returns, leaves the process running
\* and changes nothing of the instance but the caller metadata of the two
\* formatters, which both become the site label and function name of the
\* caller of Init.  It makes one debug call: when the recorded threshold is
\* debug, the record "no need to setup, swlogger is already setup!" goes to
\* the file sink and, with echo on, to the console sink, and a sink whose own
\* level is debug writes it with the new metadata; below debug nothing is
\* written.
C13_ReInitLogsDebug ==
    [][\A l \in Instances :
         (logger[l].isSetup /\ Coherent(logger[l])
             /\ last'.op = "Init" /\ last'.inst = l)
         => /\ last'.outcome = "return"
            /\ status' = status
            /\ WithMetadataOf(logger'[l], logger[l]) = logger[l]
            /\ Metadata(logger'[l].STDLogger) = Metadata(logger'[l].FileLogger)
            /\ \E site \in CallSites :
                   Metadata(logger'[l].FileLogger) = <<site.file, site.func>>
            /\ IF logger[l].LogLevel = DebugLevel
                   /\ logger[l].FileLogger.Level = DebugLevel
               THEN IsAlreadySetupRecord(wrote'.file,
                                         Metadata(logger'[l].FileLogger))
               ELSE wrote'.file = <<>>
            /\ IF logger[l].LogLevel = DebugLevel /\ logger[l].IsLog2STD
                   /\ logger[l].STDLogger.Level = DebugLevel
               THEN IsAlreadySetupRecord(wrote'.std,
                                         Metadata(logger'[l].STDLogger))
               ELSE wrote'.std = <<>>]_vars

\* a second Init on an instance with threshold debug and echo on has logged
\* its record to both sinks and left its caller's site in the formatters
C13_Witness ==
    /\ last.op = "Init"
    /\ last.via = "already setup"
    /\ Target.LogLevel = DebugLevel /\ Target.IsLog2STD
    /\ IsAlreadySetupRecord(wrote.file, <<<<"a", "/", "b", ".", "g", "o", ":", "7">>, <<"f", "o", "o">>>>)
    /\ IsAlreadySetupRecord(wrote.std, <<<<"a", "/", "b", ".", "g", "o", ":", "7">>, <<"f", "o", "o">>>>)
    /\ Metadata(Target.FileLogger) = <<<<"a", "/", "b", ".", "g", "o", ":", "7">>, <<"f", "o", "o">>>>
    /\ Len(FileBytes) = 1

====
